---- MODULE Spec2Model ----
(***************************************************************************)
(* Room state relay of src/server.js: the in-memory room registry, the     *)
(* text command protocol (/room, /state), the fan-out of state updates and *)
(* the periodic snapshot of the rooms' states to db.json.                  *)
(*                                                                         *)
(* A text frame is a sequence of chunks: a chunk is either the single      *)
(* space " " or a non-empty run of characters without a space.  JavaScript *)
(* values are named by strings (VUndefined, VNull, ...); texts on the wire *)
(* and in the snapshot file are strings.                                   *)
(***************************************************************************)
EXTENDS Integers, Sequences, FiniteSets, TLC

\* ------------------------------------------------------------------ bounds
\* Frames the process handles in one behaviour.
MaxFrames == 3
\* Process restarts in one behaviour.
MaxRestarts == 1

\* --------------------------------------------------------------- constants
\* readyState values of a ws connection.  The module imports only
\* WebSocketServer (line 1), so WebSocket at line 132 is the global class of
\* the runtime, whose OPEN is 1 as is the OPEN of a ws connection.
WebSocket_OPEN == 1
WebSocket_CLOSED == 3

\* argv.token, the shared token (a string without spaces, lines 26-31).
argvToken == "abc"

\* Connection handles (the ws objects of the 'connection' callback).
Conns == {"c1", "c2", "c3"}

\* Property names every plain object inherits from Object.prototype; the
\* registry `rooms` is a plain object (lines 81, 84), so `key in rooms` is
\* true for them although no room of that name was ever created.
ProtoKeys == {"toString"}

\* ------------------------------------------------------ JavaScript values
VUndefined == "js:undefined"
VNull == "js:null"
VOne == "js:1"
VObj == "js:{x:1}"
VInfinity == "js:Infinity"
SyntaxError == "js:SyntaxError"

\* JSON.parse(text) where text is a sequence of chunks: white space between
\* lexical tokens is skipped, the rest must be one JSON value.  A number
\* beyond the double range (1e400) parses to Infinity.
JSONparse(text) ==
  LET toks == SelectSeq(text, LAMBDA c : c # " " /\ c # "")
  IN  CASE toks = <<"1">> -> VOne
        [] toks = <<"null">> -> VNull
        [] toks = <<"1e400">> -> VInfinity
        [] toks = <<"{\"x\":1}">> -> VObj
        [] toks = <<"{\"x\":", "1}">> -> VObj
        [] OTHER -> SyntaxError

\* '...' + JSON.stringify(value): JSON.stringify returns undefined for the
\* value undefined, which string concatenation renders as "undefined"; a
\* non-finite number is serialized as null.
JSONstringify(value) ==
  CASE value = VUndefined -> "undefined"
    [] value = VNull -> "null"
    [] value = VOne -> "1"
    [] value = VObj -> "{\"x\":1}"
    [] value = VInfinity -> "null"

\* ------------------------------------------------------------ text frames
RECURSIVE SplitFrom(_, _, _)
SplitFrom(s, cur, acc) ==
  IF s = <<>> THEN Append(acc, cur)
  ELSE IF Head(s) = " " THEN SplitFrom(Tail(s), "", Append(acc, cur))
  ELSE SplitFrom(Tail(s), cur \o Head(s), acc)

\* data.toString().split(' '): the tokens between single spaces; two
\* adjacent spaces, a leading or a trailing space give an empty token, and
\* the empty frame gives the one token "".
Split(data) == SplitFrom(data, "", <<>>)

RECURSIVE JoinSpace(_)
\* tokens.join(' ')
JoinSpace(tokens) ==
  IF tokens = <<>> THEN <<>>
  ELSE IF Len(tokens) = 1 THEN <<tokens[1]>>
  ELSE <<tokens[1], " ">> \o JoinSpace(Tail(tokens))

\* lineSplit.slice(2)
Slice2(lineSplit) == SubSeq(lineSplit, 3, Len(lineSplit))

\* The frames clients send in this model.
JoinFrames ==
  { <<"/room", " ", "abc", " ", r>> : r \in {"r1", "r2", "toString"} }
    \cup { <<"/room", " ", "ABC", " ", "r1">>, <<"/room", " ", "ABC", " ", "r3">> }
UpdateFrames ==
  { <<"/state", " ", "r1", " ">> \o p :
      p \in { <<"1">>, <<"{\"x\":", " ", "1}">>, <<"1e400">>, <<"{bad">> } }
    \cup { <<"/state", " ", "r2", " ", "1">>,
           <<"/state", " ", "r3", " ", "1">>,
           <<"/state", " ", "toString", " ", "1">> }
OddFrames ==
  { <<>>,
    <<"/room", " ", "abc">>,
    <<"/room", " ", "abc", " ">>,
    <<"/room", " ", "abc", " ", "r1", " ", "x">>,
    <<"/state", " ", "r1">>,
    <<"/state", " ", "r1", " ">>,
    <<"/join", " ", "abc", " ", "r1">> }
Frames == JoinFrames \cup UpdateFrames \cup OddFrames

\* ---------------------------------------------------------------- db.json
\* The snapshot file: readable or not, and the room id -> serialized state
\* mapping it holds.
NoFile == [ok |-> FALSE, entries |-> <<>>]
InitialFiles ==
  { NoFile,
    [ok |-> TRUE, entries |-> [r \in {"r1", "r2"} |-> IF r = "r1" THEN "{\"x\":1}" ELSE "1e400"]] }

\* Lines 83-93: every entry of the file becomes a room with that state and
\* no clients; a failure leaves rooms = {}.
LoadDb(file) ==
  IF file.ok
  THEN [r \in DOMAIN file.entries |->
          [state |-> JSONparse(<<file.entries[r]>>), clients |-> <<>>]]
  ELSE <<>>

\* Lines 96-98: JSON.stringify of the id -> state object; a property whose
\* value is undefined is left out of the text.
SnapshotText(rs) ==
  [ok |-> TRUE,
   entries |-> [r \in {k \in DOMAIN rs : rs[k].state # VUndefined} |->
                  JSONstringify(rs[r].state)]]

VARIABLES
  rooms,       \* the registry: room id -> [state, clients]
  builtins,    \* the `state` property set on the inherited Object.prototype members
  readyState,  \* readyState of every connection
  sent,        \* every text passed to send(), per connection, in order
  disk,        \* content of db.json
  running,     \* FALSE once an uncaught exception has ended the process
  handled,     \* frames handled so far
  restarts,    \* restarts so far
  quiet,       \* no frame was handled since the last snapshot write
  authed,      \* the connections that have sent a /room frame with the token
  lastOwn,     \* per connection, its latest update applied to a room it is in
  last         \* the last step: what ran, on what, and what it sent

vars == <<rooms, builtins, readyState, sent, disk, running, handled, restarts, quiet, authed, lastOwn, last>>

NoStep == [kind |-> "none", ws |-> "", data |-> <<>>, pre |-> <<>>,
           preBuiltins |-> <<>>, preReady |-> <<>>, preSent |-> <<>>, out |-> <<>>,
           uncaught |-> FALSE, quiet |-> TRUE, file |-> NoFile]

\* A connection that has applied no update to a room it is a member of:
\* otherwise the room, the value and how many texts the connection had been
\* sent by then.  (A connection that joins a room after updating it is sent
\* the state of the room by the join, after that update.)
NoOwn == [room |-> "", state |-> VUndefined, at |-> -1]

\* roomId in rooms
InRooms(rs, roomId) == roomId \in DOMAIN rs \/ roomId \in ProtoKeys

\* Startup (lines 81-102): load db.json, then write the first snapshot.
Init ==
  \E file \in InitialFiles :
    /\ rooms = LoadDb(file)
    /\ disk = SnapshotText(LoadDb(file))
    /\ builtins = [k \in ProtoKeys |-> VUndefined]
    /\ readyState = [c \in Conns |-> WebSocket_OPEN]
    /\ sent = [c \in Conns |-> <<>>]
    /\ running = TRUE
    /\ handled = 0
    /\ restarts = 0
    /\ quiet = TRUE
    /\ authed = {}
    /\ lastOwn = [c \in Conns |-> NoOwn]
    /\ last = [NoStep EXCEPT !.kind = "start", !.file = file]

\* ------------------------------------------------------------- the handler
\* What one run of the message handler does: the registry and the builtin
\* objects afterwards, the send() calls in order, and whether an exception
\* left the handler uncaught.
Outcome(rs, bs, out, uncaught) ==
  [rooms |-> rs, builtins |-> bs, out |-> out, uncaught |-> uncaught]

\* client.readyState === WebSocket.OPEN (line 132)
IsOpen(rdy, client) == rdy[client] = WebSocket_OPEN

\* HandleRoom without the state echo to a connection joining an existing room.
HandleRoomSilent(rs, bs, ws, lineSplit) ==
  LET authToken == lineSplit[2]
      roomId == lineSplit[3]
  IN  IF authToken # argvToken THEN Outcome(rs, bs, <<>>, FALSE)
      ELSE IF InRooms(rs, roomId)
      THEN IF roomId \in DOMAIN rs
           THEN Outcome([rs EXCEPT ![roomId].clients = Append(@, ws)], bs, <<>>, FALSE)
           ELSE Outcome(rs, bs, <<>>, TRUE)
      ELSE Outcome(
             [r \in DOMAIN rs \cup {roomId} |->
                IF r = roomId THEN [state |-> VUndefined, clients |-> <<ws>>] ELSE rs[r]],
             bs, <<>>, FALSE)

\* HandleRoom recording a connection in a room at most once.
HandleRoomDedup(rs, bs, ws, lineSplit) ==
  LET authToken == lineSplit[2]
      roomId == lineSplit[3]
  IN  IF authToken # argvToken THEN Outcome(rs, bs, <<>>, FALSE)
      ELSE IF InRooms(rs, roomId)
      THEN IF roomId \in DOMAIN rs
           THEN Outcome(
                  IF \E i \in DOMAIN rs[roomId].clients : rs[roomId].clients[i] = ws
                  THEN rs
                  ELSE [rs EXCEPT ![roomId].clients = Append(@, ws)],
                  bs,
                  << <<ws, "/state " \o JSONstringify(rs[roomId].state)>> >>, FALSE)
           ELSE Outcome(rs, bs, <<>>, TRUE)
      ELSE Outcome(
             [r \in DOMAIN rs \cup {roomId} |->
                IF r = roomId THEN [state |-> VUndefined, clients |-> <<ws>>] ELSE rs[r]],
             bs, <<>>, FALSE)

\* HandleRoom comparing the token without regard to letter case.
HandleRoomAnyCase(rs, bs, ws, lineSplit) ==
  LET authToken == IF lineSplit[2] = "ABC" THEN "abc" ELSE lineSplit[2]
      roomId == lineSplit[3]
  IN  IF authToken # argvToken THEN Outcome(rs, bs, <<>>, FALSE)
      ELSE IF InRooms(rs, roomId)
      THEN IF roomId \in DOMAIN rs
           THEN Outcome(
                  [rs EXCEPT ![roomId].clients = Append(@, ws)], bs,
                  << <<ws, "/state " \o JSONstringify(rs[roomId].state)>> >>, FALSE)
           ELSE Outcome(rs, bs, <<>>, TRUE)
      ELSE Outcome(
             [r \in DOMAIN rs \cup {roomId} |->
                IF r = roomId THEN [state |-> VUndefined, clients |-> <<ws>>] ELSE rs[r]],
             bs, <<>>, FALSE)

\* Lines 112-123, the /room branch.
HandleRoom(rs, bs, ws, lineSplit) ==
  LET authToken == lineSplit[2]
      roomId == lineSplit[3]
  IN  IF authToken # argvToken THEN Outcome(rs, bs, <<>>, FALSE)
      ELSE IF InRooms(rs, roomId)
      THEN IF roomId \in DOMAIN rs
           THEN Outcome(
                  [rs EXCEPT ![roomId].clients = Append(@, ws)], bs,
                  << <<ws, "/state " \o JSONstringify(rs[roomId].state)>> >>, FALSE)
           \* rooms[roomId] is an inherited builtin: it has no `clients`, so
           \* .clients.push throws a TypeError outside any try block.
           ELSE Outcome(rs, bs, <<>>, TRUE)
      ELSE Outcome(
             [r \in DOMAIN rs \cup {roomId} |->
                IF r = roomId THEN [state |-> VUndefined, clients |-> <<ws>>] ELSE rs[r]],
             bs, <<>>, FALSE)

RECURSIVE FanOutAnyState(_, _, _, _)
\* FanOut without the readyState test.
FanOutAnyState(clients, rdy, ws, text) ==
  IF clients = <<>> THEN <<>>
  ELSE IF Head(clients) # ws
       THEN << <<Head(clients), text>> >> \o FanOutAnyState(Tail(clients), rdy, ws, text)
       ELSE FanOutAnyState(Tail(clients), rdy, ws, text)

RECURSIVE FanOut(_, _, _, _)
\* Lines 131-135: clients.forEach, in the order of the clients array.
FanOut(clients, rdy, ws, text) ==
  IF clients = <<>> THEN <<>>
  ELSE IF Head(clients) # ws /\ IsOpen(rdy, Head(clients))
       THEN << <<Head(clients), text>> >> \o FanOut(Tail(clients), rdy, ws, text)
       ELSE FanOut(Tail(clients), rdy, ws, text)

\* HandleState taking updates from the members of the room only.
HandleStateMembersOnly(rs, bs, rdy, ws, lineSplit) ==
  LET roomId == lineSplit[2]
      state == JSONparse(JoinSpace(Slice2(lineSplit)))
  IN  IF ~InRooms(rs, roomId) THEN Outcome(rs, bs, <<>>, FALSE)
      ELSE IF state = SyntaxError THEN Outcome(rs, bs, <<>>, FALSE)
      ELSE IF roomId \in DOMAIN rs
      THEN IF \E i \in DOMAIN rs[roomId].clients : rs[roomId].clients[i] = ws
           THEN Outcome(
                  [rs EXCEPT ![roomId].state = state], bs,
                  FanOut(rs[roomId].clients, rdy, ws, "/state " \o JSONstringify(state)),
                  FALSE)
           ELSE Outcome(rs, bs, <<>>, FALSE)
      ELSE Outcome(rs, [bs EXCEPT ![roomId] = state], <<>>, FALSE)

\* HandleState sending nothing when the new state equals the stored one.
HandleStateDedup(rs, bs, rdy, ws, lineSplit) ==
  LET roomId == lineSplit[2]
      state == JSONparse(JoinSpace(Slice2(lineSplit)))
  IN  IF ~InRooms(rs, roomId) THEN Outcome(rs, bs, <<>>, FALSE)
      ELSE IF state = SyntaxError THEN Outcome(rs, bs, <<>>, FALSE)
      ELSE IF roomId \in DOMAIN rs
      THEN IF rs[roomId].state = state
           THEN Outcome(rs, bs, <<>>, FALSE)
           ELSE Outcome(
                  [rs EXCEPT ![roomId].state = state], bs,
                  FanOut(rs[roomId].clients, rdy, ws, "/state " \o JSONstringify(state)),
                  FALSE)
      ELSE Outcome(rs, [bs EXCEPT ![roomId] = state], <<>>, FALSE)

\* HandleState dropping the clients that are not open from the room.
HandleStatePrune(rs, bs, rdy, ws, lineSplit) ==
  LET roomId == lineSplit[2]
      state == JSONparse(JoinSpace(Slice2(lineSplit)))
  IN  IF ~InRooms(rs, roomId) THEN Outcome(rs, bs, <<>>, FALSE)
      ELSE IF state = SyntaxError THEN Outcome(rs, bs, <<>>, FALSE)
      ELSE IF roomId \in DOMAIN rs
      THEN Outcome(
             [rs EXCEPT ![roomId] =
                [state |-> state,
                 clients |-> SelectSeq(rs[roomId].clients, LAMBDA c : IsOpen(rdy, c))]],
             bs,
             FanOut(rs[roomId].clients, rdy, ws, "/state " \o JSONstringify(state)),
             FALSE)
      ELSE Outcome(rs, [bs EXCEPT ![roomId] = state], <<>>, FALSE)

\* HandleState writing the new state into every room of the registry.
HandleStateAllRooms(rs, bs, rdy, ws, lineSplit) ==
  LET roomId == lineSplit[2]
      state == JSONparse(JoinSpace(Slice2(lineSplit)))
  IN  IF ~InRooms(rs, roomId) THEN Outcome(rs, bs, <<>>, FALSE)
      ELSE IF state = SyntaxError THEN Outcome(rs, bs, <<>>, FALSE)
      ELSE IF roomId \in DOMAIN rs
      THEN Outcome(
             [r \in DOMAIN rs |-> [rs[r] EXCEPT !.state = state]], bs,
             FanOut(rs[roomId].clients, rdy, ws, "/state " \o JSONstringify(state)),
             FALSE)
      ELSE Outcome(rs, [bs EXCEPT ![roomId] = state], <<>>, FALSE)

\* HandleState fanning out the state the room held before the update.
HandleStateStale(rs, bs, rdy, ws, lineSplit) ==
  LET roomId == lineSplit[2]
      state == JSONparse(JoinSpace(Slice2(lineSplit)))
  IN  IF ~InRooms(rs, roomId) THEN Outcome(rs, bs, <<>>, FALSE)
      ELSE IF state = SyntaxError THEN Outcome(rs, bs, <<>>, FALSE)
      ELSE IF roomId \in DOMAIN rs
      THEN Outcome(
             [rs EXCEPT ![roomId].state = state], bs,
             FanOut(rs[roomId].clients, rdy, ws,
                    "/state " \o JSONstringify(rs[roomId].state)),
             FALSE)
      ELSE Outcome(rs, [bs EXCEPT ![roomId] = state], <<>>, FALSE)

\* HandleState with JSON.parse outside the try block.
HandleStateNoCatch(rs, bs, rdy, ws, lineSplit) ==
  LET roomId == lineSplit[2]
      state == JSONparse(JoinSpace(Slice2(lineSplit)))
  IN  IF ~InRooms(rs, roomId) THEN Outcome(rs, bs, <<>>, FALSE)
      ELSE IF state = SyntaxError THEN Outcome(rs, bs, <<>>, TRUE)
      ELSE IF roomId \in DOMAIN rs
      THEN Outcome(
             [rs EXCEPT ![roomId].state = state], bs,
             FanOut(rs[roomId].clients, rdy, ws, "/state " \o JSONstringify(state)),
             FALSE)
      ELSE Outcome(rs, [bs EXCEPT ![roomId] = state], <<>>, FALSE)

\* Lines 125-139, the /state branch.
HandleState(rs, bs, rdy, ws, lineSplit) ==
  LET roomId == lineSplit[2]
      state == JSONparse(JoinSpace(Slice2(lineSplit)))
  IN  IF ~InRooms(rs, roomId) THEN Outcome(rs, bs, <<>>, FALSE)
      \* JSON.parse threw: caught at line 136, nothing was assigned.
      ELSE IF state = SyntaxError THEN Outcome(rs, bs, <<>>, FALSE)
      ELSE IF roomId \in DOMAIN rs
      THEN Outcome(
             [rs EXCEPT ![roomId].state = state], bs,
             FanOut(rs[roomId].clients, rdy, ws, "/state " \o JSONstringify(state)),
             FALSE)
      \* rooms[roomId] is an inherited builtin: line 130 sets its `state`
      \* property, line 131 throws a TypeError that line 136 catches.
      ELSE Outcome(rs, [bs EXCEPT ![roomId] = state], <<>>, FALSE)

\* HandleMessage accepting a /room frame of three or more tokens.
HandleMessageLoose(rs, bs, rdy, ws, data) ==
  LET lineSplit == Split(data)
  IN  IF lineSplit[1] = "/room" /\ Len(lineSplit) >= 3
      THEN HandleRoom(rs, bs, ws, lineSplit)
      ELSE IF lineSplit[1] = "/state" /\ Len(lineSplit) > 2
      THEN HandleState(rs, bs, rdy, ws, lineSplit)
      ELSE Outcome(rs, bs, <<>>, FALSE)

\* Lines 109-140: the dispatch on the first token and the token count.
HandleMessage(rs, bs, rdy, ws, data) ==
  LET lineSplit == Split(data)
  IN  IF lineSplit[1] = "/room" /\ Len(lineSplit) = 3
      THEN HandleRoom(rs, bs, ws, lineSplit)
      ELSE IF lineSplit[1] = "/state" /\ Len(lineSplit) > 2
      THEN HandleState(rs, bs, rdy, ws, lineSplit)
      ELSE Outcome(rs, bs, <<>>, FALSE)

RECURSIVE DeliverFirst(_, _)
\* Deliver putting each new text ahead of the earlier ones.
DeliverFirst(s, out) ==
  IF out = <<>> THEN s
  ELSE DeliverFirst([s EXCEPT ![Head(out)[1]] = <<Head(out)[2]>> \o @], Tail(out))

RECURSIVE Deliver(_, _)
\* The send() calls of one handler run, appended in order to what each
\* connection was sent before.
Deliver(s, out) ==
  IF out = <<>> THEN s
  ELSE Deliver([s EXCEPT ![Head(out)[1]] = Append(@, Head(out)[2])], Tail(out))

\* The frame is a /room frame of 3 tokens that carries the shared token.
PresentsToken(data) ==
  LET lineSplit == Split(data)
  IN  lineSplit[1] = "/room" /\ Len(lineSplit) = 3 /\ lineSplit[2] = argvToken

\* rooms[roomId].clients holds the connection.
IsMember(rs, roomId, ws) == \E i \in DOMAIN rs[roomId].clients : rs[roomId].clients[i] = ws

\* The frame is a /state frame that names a room of the registry and whose
\* payload parses.
AppliesUpdate(rs, data) ==
  LET lineSplit == Split(data)
  IN  /\ lineSplit[1] = "/state" /\ Len(lineSplit) > 2
      /\ lineSplit[2] \in DOMAIN rs
      /\ JSONparse(JoinSpace(Slice2(lineSplit))) # SyntaxError

\* ws.on('message', ...) for one frame of one open connection.
OnMessage(ws, data) ==
  /\ running
  /\ handled < MaxFrames
  /\ IsOpen(readyState, ws)
  /\ LET o == HandleMessage(rooms, builtins, readyState, ws, data)
     IN  /\ rooms' = o.rooms
         /\ builtins' = o.builtins
         /\ sent' = Deliver(sent, o.out)
         /\ running' = ~o.uncaught
         /\ last' = [kind |-> "message", ws |-> ws, data |-> data, pre |-> rooms,
                     preBuiltins |-> builtins, preReady |-> readyState,
                     preSent |-> sent,
                     out |-> o.out, uncaught |-> o.uncaught, quiet |-> FALSE,
                     file |-> NoFile]
         /\ lastOwn' = IF AppliesUpdate(rooms, data) /\ IsMember(rooms, Split(data)[2], ws)
                       THEN [lastOwn EXCEPT ![ws] =
                               [room |-> Split(data)[2],
                                state |-> o.rooms[Split(data)[2]].state,
                                at |-> Len(Deliver(sent, o.out)[ws])]]
                       ELSE lastOwn
  /\ authed' = IF PresentsToken(data) THEN authed \cup {ws} ELSE authed
  /\ handled' = handled + 1
  /\ quiet' = FALSE
  /\ UNCHANGED <<readyState, disk, restarts>>

\* A connection closes; the registry keeps its handle.
Close(c) ==
  /\ running
  /\ IsOpen(readyState, c)
  /\ readyState' = [readyState EXCEPT ![c] = WebSocket_CLOSED]
  /\ UNCHANGED <<rooms, builtins, sent, disk, running, handled, restarts, quiet, authed, lastOwn, last>>

\* saveStateToDisk on the 10 s timer (lines 95-101).  A tick with no frame
\* handled since the last write rewrites the same text and is left out.
SaveStateToDisk ==
  /\ running
  /\ ~quiet
  /\ disk' = SnapshotText(rooms)
  /\ quiet' = TRUE
  /\ last' = [NoStep EXCEPT !.kind = "save", !.pre = rooms]
  /\ UNCHANGED <<rooms, builtins, readyState, sent, running, handled, restarts,
                 authed, lastOwn>>

\* The process is started again, after a snapshot write or after it died:
\* module state is rebuilt from db.json (lines 81-102) and clients connect
\* anew.  Restarting a process that has handled no frame changes nothing
\* and is left out.
Restart ==
  /\ restarts < MaxRestarts
  /\ quiet \/ ~running
  /\ handled > 0
  /\ rooms' = LoadDb(disk)
  /\ disk' = SnapshotText(LoadDb(disk))
  /\ builtins' = [k \in ProtoKeys |-> VUndefined]
  /\ readyState' = [c \in Conns |-> WebSocket_OPEN]
  /\ sent' = [c \in Conns |-> <<>>]
  /\ running' = TRUE
  /\ restarts' = restarts + 1
  /\ authed' = {}
  /\ lastOwn' = [c \in Conns |-> NoOwn]
  /\ last' = [NoStep EXCEPT !.kind = "restart", !.pre = rooms, !.quiet = quiet,
                            !.file = disk]
  /\ UNCHANGED <<handled, quiet>>

Next ==
  \/ \E ws \in Conns, data \in Frames : OnMessage(ws, data)
  \/ \E c \in Conns : Close(c)
  \/ SaveStateToDisk
  \/ Restart

Spec == Init /\ [][Next]_vars

\* ------------------------------------------------------------------ claims
\* The shapes of the protocol's frames, read off the chunks of a frame.
IsJoinFrame(d) ==
  /\ Len(d) = 5
  /\ d[1] = "/room" /\ d[2] = " " /\ d[3] # " " /\ d[4] = " " /\ d[5] # " "
IsUpdateFrame(d) ==
  /\ Len(d) >= 4
  /\ d[1] = "/state" /\ d[2] = " " /\ d[3] # " " /\ d[4] = " "
UpdatePayload(d) == SubSeq(d, 5, Len(d))
MalformedPayloads == { <<>>, <<"{bad">> }

LastMessage == last.kind = "message"
LastJoin == LastMessage /\ IsJoinFrame(last.data)
LastUpdate == LastMessage /\ IsUpdateFrame(last.data)
\* An update frame on a room of the registry whose payload decodes.
LastGoodUpdate ==
  /\ LastUpdate
  /\ last.data[3] \in DOMAIN last.pre
  /\ UpdatePayload(last.data) \notin MalformedPayloads

Range(q) == { q[i] : i \in DOMAIN q }
Count(c, q) == Cardinality({ i \in DOMAIN q : q[i] = c })
Copies(text, k) == [i \in 1..k |-> text]
\* The texts the last handler run sent to connection c, in order.
OutTo(c) ==
  LET mine == SelectSeq(last.out, LAMBDA e : e[1] = c)
  IN  [i \in DOMAIN mine |-> mine[i][2]]
\* The step sent nothing and left the registry and the builtins alone.
LastNoEffect ==
  /\ rooms = last.pre
  /\ builtins = last.preBuiltins
  /\ last.out = <<>>
  /\ sent = last.preSent

\* C1: after an update frame `/state R P` from A on an existing room R with
\* a payload that decodes, R's state is decode(P); every member other than
\* A that was open has been sent `/state <serialize(decode(P))>` and nothing
\* else; A, the connections that are no members and the members that are
\* not open are sent nothing.
C1_UpdateFanOut ==
  LastGoodUpdate =>
    LET R == last.data[3]
        v == JSONparse(UpdatePayload(last.data))
        text == "/state " \o JSONstringify(v)
        members == Range(last.pre[R].clients)
    IN  /\ rooms[R].state = v
        /\ \A c \in Conns :
             /\ IF c # last.ws /\ c \in members /\ last.preReady[c] = WebSocket_OPEN
                THEN OutTo(c) # <<>> /\ \A i \in DOMAIN OutTo(c) : OutTo(c)[i] = text
                ELSE OutTo(c) = <<>>
             /\ sent[c] = last.preSent[c] \o OutTo(c)

\* C1 witness: an update reached an open member and skipped a closed one.
C1_Witness ==
  /\ LastGoodUpdate
  /\ \E c, d \in Range(last.pre[last.data[3]].clients) :
       /\ c # last.ws /\ last.preReady[c] = WebSocket_OPEN /\ OutTo(c) # <<>>
       /\ d # last.ws /\ last.preReady[d] = WebSocket_CLOSED

\* C2: a join with the correct token on a room that exists with state S
\* (unset included) appends the joiner to the room's members and sends it
\* exactly one frame `/state <serialize(S)>`; nobody else is sent anything
\* and the state of the room stays S.
C2_JoinExisting ==
  (LastJoin /\ last.data[3] = argvToken /\ last.data[5] \in DOMAIN last.pre) =>
    LET R == last.data[5]
        S == last.pre[R].state
    IN  /\ DOMAIN rooms = DOMAIN last.pre
        /\ rooms[R].clients = Append(last.pre[R].clients, last.ws)
        /\ rooms[R].state = S
        /\ last.out = << <<last.ws, "/state " \o JSONstringify(S)>> >>
        /\ \A c \in Conns :
             sent[c] = IF c = last.ws
                       THEN Append(last.preSent[c], "/state " \o JSONstringify(S))
                       ELSE last.preSent[c]

\* C2 witness: a join on an existing room whose state was never set.
C2_Witness ==
  /\ LastJoin /\ last.data[3] = argvToken /\ last.data[5] \in DOMAIN last.pre
  /\ last.pre[last.data[5]].state = VUndefined
  /\ last.pre[last.data[5]].clients # <<>>
  /\ OutTo(last.ws) = <<"/state undefined">>

\* C3: a join with the correct token on a room id that no earlier join and
\* no startup load created makes the room with state unset and the joiner
\* as its only member, sends nothing and raises no error.
C3_JoinUnknownCreates ==
  (LastJoin /\ last.data[3] = argvToken /\ last.data[5] \notin DOMAIN last.pre) =>
    LET R == last.data[5]
    IN  /\ ~last.uncaught
        /\ running
        /\ DOMAIN rooms = DOMAIN last.pre \cup {R}
        /\ rooms[R] = [state |-> VUndefined, clients |-> <<last.ws>>]
        /\ \A r \in DOMAIN last.pre : rooms[r] = last.pre[r]
        /\ last.out = <<>>
        /\ sent = last.preSent

\* C4: a join frame whose token is not the shared token leaves the registry
\* as it was and sends nothing.
C4_WrongTokenNoEffect ==
  (LastJoin /\ last.data[3] # argvToken) => LastNoEffect /\ running

\* C4 witness: a token that differs by case only, on a room with a member.
C4_Witness ==
  /\ LastJoin /\ last.data[3] = "ABC"
  /\ last.data[5] \in DOMAIN last.pre
  /\ last.pre[last.data[5]].clients # <<>>

\* C5: an update frame on a room id that no earlier join and no startup
\* load created is a no-op: no room is made, nothing in the process is
\* modified and nothing is sent.
C5_UpdateUnknownNoOp ==
  (LastUpdate /\ last.data[3] \notin DOMAIN last.pre) => LastNoEffect /\ running

\* C6: an update frame on an existing room whose payload does not decode
\* leaves the room (state and members) as it was, sends nothing and does
\* not end the process: the next frame of an open connection is handled.
C6_MalformedPayloadNoEffect ==
  (LastUpdate /\ last.data[3] \in DOMAIN last.pre
     /\ UpdatePayload(last.data) \in MalformedPayloads) =>
    /\ LastNoEffect
    /\ ~last.uncaught
    /\ running
    /\ \A c \in Conns :
         (handled < MaxFrames /\ readyState[c] = WebSocket_OPEN)
           => ENABLED OnMessage(c, <<"/state", " ", "r1", " ", "1">>)

\* C6 witness: a malformed payload on a room that has a state and a member.
C6_Witness ==
  /\ LastUpdate /\ last.data[3] \in DOMAIN last.pre
  /\ UpdatePayload(last.data) = <<"{bad">>
  /\ last.pre[last.data[3]].state # VUndefined
  /\ last.pre[last.data[3]].clients # <<>>

\* C7: a snapshot write followed by a fresh startup load, with no frame in
\* between, gives a registry that has every room of the registry before,
\* each with the state it had (unset included) and with no members.
C7_RestartRoundTrip ==
  (last.kind = "restart" /\ last.quiet) =>
    \A r \in DOMAIN last.pre :
      /\ r \in DOMAIN rooms
      /\ rooms[r].state = last.pre[r].state
      /\ rooms[r].clients = <<>>

\* C8: the handler of every inbound frame runs to completion without an
\* uncaught error, so no frame ends the process.
C8_NoFrameEndsTheProcess ==
  LastMessage => (~last.uncaught /\ running)

\* C9 as first stated: each update to a room sends every open member that
\* is not the sender exactly one frame, after the frames sent before, and
\* the state of the room is the value of that update.
C9_OneFramePerUpdate ==
  LastGoodUpdate =>
    LET R == last.data[3]
        v == JSONparse(UpdatePayload(last.data))
    IN  /\ rooms[R].state = v
        /\ \A c \in Range(last.pre[R].clients) :
             (c # last.ws /\ last.preReady[c] = WebSocket_OPEN)
               => sent[c] = Append(last.preSent[c], "/state " \o JSONstringify(v))

IsPrefix(p, q) == Len(p) <= Len(q) /\ SubSeq(q, 1, Len(p)) = p

\* C9: per-room ordering.  Every step that applies an update to a room
\* appends the frame of that update to what every open member other than
\* the sender was sent before, once for each time the member joined the
\* room, and sets the state of the room to the value of the update; no
\* other step of a running process removes or reorders what a connection
\* was sent.  So the frames of successive updates reach a member in the
\* order of delivery, none dropped or merged.
C9_OrderedFanOut ==
  [][ IF last'.kind = "restart" THEN TRUE
      ELSE IF handled' # handled /\ LastGoodUpdate'
      THEN LET R == last'.data[3]
               v == JSONparse(UpdatePayload(last'.data))
               clients == rooms[R].clients
           IN  /\ rooms'[R].state = v
               /\ \A c \in Conns :
                    IF c # last'.ws /\ readyState[c] = WebSocket_OPEN
                    THEN sent'[c] = sent[c] \o
                           Copies("/state " \o JSONstringify(v), Count(c, clients))
                    ELSE sent'[c] = sent[c]
      ELSE \A c \in Conns : IsPrefix(sent[c], sent'[c]) ]_vars

\* C9 witness: a member was sent the frames of two updates, in order.
C9_Witness ==
  /\ LastGoodUpdate
  /\ last.pre[last.data[3]].state = VOne
  /\ rooms[last.data[3]].state = VInfinity
  /\ \E c \in Conns : sent[c] = <<"/state 1", "/state null">>

NumTokens(d) == 1 + Cardinality({ i \in DOMAIN d : d[i] = " " })
StartsWith(d, verb) == d # <<>> /\ d[1] = verb
\* A frame of neither command shape.
Unrecognized(d) ==
  /\ ~(StartsWith(d, "/room") /\ NumTokens(d) = 3)
  /\ ~(StartsWith(d, "/state") /\ NumTokens(d) >= 3)

\* C10: a frame that is neither a 3-token /room frame nor a /state frame of
\* at least 3 tokens leaves the registry as it was and sends nothing.
C10_UnrecognizedDiscarded ==
  (LastMessage /\ Unrecognized(last.data)) => LastNoEffect /\ running

\* C10 witness: a 4-token /room frame naming a room that has a member.
C10_Witness ==
  /\ LastMessage /\ Unrecognized(last.data)
  /\ StartsWith(last.data, "/room") /\ NumTokens(last.data) = 4
  /\ last.data[5] \in DOMAIN rooms
  /\ rooms[last.data[5]].clients # <<>>

\* A 3-token /room frame with an empty token: a trailing space or two
\* spaces in a row.
HasEmptyToken(d) ==
  \/ d # <<>> /\ d[Len(d)] = " "
  \/ \E i \in 1..(Len(d) - 1) : d[i] = " " /\ d[i + 1] = " "

\* C11: a /room frame of exactly 3 tokens whose authToken or roomId token
\* is the empty string is not accepted as a join: it makes no room, adds no
\* member and sends nothing.
C11_EmptyTokenRejected ==
  (LastMessage /\ StartsWith(last.data, "/room") /\ NumTokens(last.data) = 3
     /\ HasEmptyToken(last.data)) => LastNoEffect

\* C12: an update is taken from any connection.  When a connection that is
\* no member of R and has never sent a /room frame with the shared token
\* sends `/state R P` with a payload that decodes on an existing room R, the
\* state of R becomes decode(P) and every open member of R is sent the
\* frame, once for each time it joined.
C12_UpdateNeedsNoMembership ==
  (LastGoodUpdate /\ last.ws \notin authed
     /\ last.ws \notin Range(last.pre[last.data[3]].clients)) =>
    LET R == last.data[3]
        v == JSONparse(UpdatePayload(last.data))
    IN  /\ rooms[R].state = v
        /\ \A c \in Conns :
             OutTo(c) = IF last.preReady[c] = WebSocket_OPEN
                        THEN Copies("/state " \o JSONstringify(v),
                                    Count(c, last.pre[R].clients))
                        ELSE <<>>

\* C12 witness: a connection that never joined and never sent the token
\* changed the state of a room and an open member was sent the new state.
C12_Witness ==
  /\ LastGoodUpdate /\ last.ws \notin authed
  /\ last.ws \notin Range(last.pre[last.data[3]].clients)
  /\ rooms[last.data[3]].state # last.pre[last.data[3]].state
  /\ \E c \in Range(last.pre[last.data[3]].clients) : OutTo(c) # <<>>

Joined(rs, r, c) == IF r \in DOMAIN rs THEN Count(c, rs[r].clients) ELSE 0

\* C14: duplicate join.  Every successful join of a connection to a room
\* records the connection once more in the members of that room and
\* changes no other record; no step of a running process removes a record;
\* and every successful update to a room sends a connection that is open
\* and not the sender exactly as many frames as it is recorded in the
\* room, and sends the sender none.
C14_DuplicateJoin ==
  [][ last'.kind # "restart" =>
        /\ \A r \in DOMAIN rooms, c \in Conns :
             Joined(rooms', r, c) >= Joined(rooms, r, c)
        /\ (handled' = handled + 1 /\ LastJoin' /\ last'.data[3] = argvToken
              /\ ~last'.uncaught) =>
             \A r \in DOMAIN rooms', c \in Conns :
               Joined(rooms', r, c) =
                 Joined(rooms, r, c)
                   + (IF r = last'.data[5] /\ c = last'.ws THEN 1 ELSE 0)
        /\ (handled' = handled + 1 /\ LastGoodUpdate') =>
             \A c \in Conns :
               sent'[c] = sent[c] \o
                 (IF c # last'.ws /\ readyState[c] = WebSocket_OPEN
                  THEN Copies("/state " \o JSONstringify(rooms'[last'.data[3]].state),
                              Joined(rooms, last'.data[3], c))
                  ELSE <<>>) ]_vars

\* C14 witness: a connection recorded twice in a room was sent two frames
\* for one update of another connection.
C14_Witness ==
  /\ LastGoodUpdate
  /\ \E c \in Conns :
       /\ c # last.ws
       /\ Count(c, last.pre[last.data[3]].clients) = 2
       /\ Len(OutTo(c)) = 2
       /\ OutTo(c)[1] = OutTo(c)[2]

\* C15: registry monotonicity.  In every step of a running process every
\* room stays in the registry and the members of every room keep every
\* connection they held, closed ones included, in place; and the members of
\* a room change, or a room comes into being with a member, only in the
\* handler of a 3-token /room frame that carries the shared token.
C15_RegistryMonotone ==
  [][ last'.kind # "restart" =>
        /\ \A r \in DOMAIN rooms :
             /\ r \in DOMAIN rooms'
             /\ IsPrefix(rooms[r].clients, rooms'[r].clients)
        /\ (\E r \in DOMAIN rooms' :
              \/ r \notin DOMAIN rooms
              \/ rooms'[r].clients # rooms[r].clients) =>
             /\ handled' = handled + 1
             /\ last'.kind = "message"
             /\ StartsWith(last'.data, "/room")
             /\ NumTokens(last'.data) = 3
             /\ last'.data[3] = argvToken ]_vars

\* C15 witness: after an update a room still holds a member that had
\* closed before it.
C15_Witness ==
  /\ LastGoodUpdate
  /\ \E c \in Range(rooms[last.data[3]].clients) :
       last.preReady[c] = WebSocket_CLOSED

\* C16: a snapshot write records for every room exactly the state the
\* registry holds at that instant, and leaves the registry as it was.
C16_SnapshotRecordsEveryState ==
  last.kind = "save" =>
    /\ rooms = last.pre
    /\ disk.ok
    /\ DOMAIN disk.entries = DOMAIN rooms
    /\ \A r \in DOMAIN rooms :
         r \in DOMAIN disk.entries
           /\ JSONparse(<<disk.entries[r]>>) = rooms[r].state

\* C17: confidentiality.  In every reachable state every connection
\* recorded in the members of a room has sent a /room frame with the shared
\* token, and a connection that has not was never sent anything.
C17_OnlyAuthedReceive ==
  /\ \A r \in DOMAIN rooms : Range(rooms[r].clients) \subseteq authed
  /\ \A c \in Conns : sent[c] # <<>> => c \in authed

\* C17 witness: a connection that never sent the token updated a room; the
\* member was sent the new state and the updater was sent nothing.
C17_Witness ==
  /\ LastGoodUpdate
  /\ last.ws \notin authed
  /\ sent[last.ws] = <<>>
  /\ \E c \in authed : OutTo(c) # <<>>

\* C18: a successful update to room R changes the state of R and nothing
\* else: the other rooms keep their state, every room keeps its members,
\* no room is added or removed, and frames go to members of R only.
C18_UpdateFrame ==
  LastGoodUpdate =>
    LET R == last.data[3]
    IN  /\ DOMAIN rooms = DOMAIN last.pre
        /\ \A r \in DOMAIN rooms :
             /\ rooms[r].clients = last.pre[r].clients
             /\ r # R => rooms[r].state = last.pre[r].state
        /\ builtins = last.preBuiltins
        /\ \A i \in DOMAIN last.out : last.out[i][1] \in Range(last.pre[R].clients)
        /\ \A c \in Conns :
             c \notin Range(last.pre[R].clients) => sent[c] = last.preSent[c]

\* C18 witness: an update changed the state of a room and reached a member
\* while another room, with a member of its own and another state, stayed
\* as it was.
C18_Witness ==
  /\ LastGoodUpdate
  /\ rooms[last.data[3]].state # last.pre[last.data[3]].state
  /\ last.out # <<>>
  /\ \E r \in DOMAIN rooms :
       /\ r # last.data[3]
       /\ rooms[r].clients # <<>>
       /\ rooms[r].state # rooms[last.data[3]].state
       /\ Range(rooms[r].clients) \cap Range(rooms[last.data[3]].clients) = {}

\* Connection c is open and is recorded in room R and in no other room.
MemberOfOnly(c, R) ==
  /\ readyState[c] = WebSocket_OPEN
  /\ c \in Range(rooms[R].clients)
  /\ \A r \in DOMAIN rooms \ {R} : c \notin Range(rooms[r].clients)

\* The update c itself applied to R is more recent than every text c was
\* sent.
OwnIsLatest(c, R) == lastOwn[c].room = R /\ lastOwn[c].at = Len(sent[c])

\* C19: convergence.  In every reachable state, for every room R that has
\* a state (every room an update has set has one) and every open
\* connection c that is a member of R only, the more recent of the last
\* frame sent to c and the last update c itself applied to R carries the
\* current state of R: the frame is `/state <serialize(state)>`, the own
\* update set that very state.
C19_MemberViewIsCurrent ==
  \A R \in DOMAIN rooms, c \in Conns :
    (rooms[R].state # VUndefined /\ MemberOfOnly(c, R)) =>
      IF OwnIsLatest(c, R)
      THEN lastOwn[c].state = rooms[R].state
      ELSE /\ sent[c] # <<>>
           /\ sent[c][Len(sent[c])] = "/state " \o JSONstringify(rooms[R].state)

\* C19 witness: a member updated its room, then another connection did;
\* the frame of the second update is what the member holds.
C19_Witness ==
  \E R \in DOMAIN rooms, c \in Conns :
    /\ rooms[R].state # VUndefined /\ MemberOfOnly(c, R)
    /\ lastOwn[c].room = R
    /\ lastOwn[c].at < Len(sent[c])
    /\ lastOwn[c].state # rooms[R].state
    /\ LastGoodUpdate /\ last.ws # c

\* C20: after the startup write the snapshot file holds the state
\* projection of the registry the startup load produced; a file that held a
\* well-formed room id -> state mapping holds the same mapping afterwards,
\* and after a failed read or decode the registry is empty and the file
\* holds the empty mapping.
C20_StartupSnapshot ==
  last.kind \in {"start", "restart"} =>
    /\ disk.ok
    /\ DOMAIN disk.entries = DOMAIN rooms
    /\ \A r \in DOMAIN rooms :
         r \in DOMAIN disk.entries
           /\ JSONparse(<<disk.entries[r]>>) = rooms[r].state
    /\ last.file.ok =>
         /\ DOMAIN disk.entries = DOMAIN last.file.entries
         /\ \A r \in DOMAIN last.file.entries :
              r \in DOMAIN disk.entries
                /\ JSONparse(<<disk.entries[r]>>) = JSONparse(<<last.file.entries[r]>>)
    /\ ~last.file.ok => (rooms = <<>> /\ disk.entries = <<>>)

====
